---------------------------- MODULE Spec2Model ----------------------------
(***************************************************************************)
(* Persistence layer (db.py) and price cache (unified_price_scripts.py)    *)
(* of the sentiment analyzer, as state machines.                           *)
(*                                                                         *)
(* unified_price_scripts.py: get_price_history is a sequence of steps      *)
(* (build the path, test freshness, read the file, download, open the      *)
(* file, write it) between which the clock advances and other workers      *)
(* run.  Nothing locks the cache file.                                     *)
(*                                                                         *)
(* db.py: every operation runs its statements inside one                   *)
(* `with engine.begin() as conn:` block, i.e. one transaction that commits *)
(* when the block is left normally and rolls back when it is left by an    *)
(* exception.  Each statement is one atomic step; calls of different       *)
(* workers interleave between statements.  A row written by a transaction  *)
(* that has not ended is locked: another transaction's write on the same   *)
(* unique key waits for the end of the first one.                          *)
(***************************************************************************)
EXTENDS Integers, Sequences, FiniteSets, TLC

VARIABLES
    articles,         \* table articles: set of rows
    tickers,          \* table tickers: set of rows
    article_tickers,  \* table article_tickers: set of rows
    predictions,      \* table predictions: set of rows
    actuals,          \* table actuals: set of rows
    autoinc,          \* next AUTO_INCREMENT value of each table
    pc,               \* per worker: position inside the running call
    cur,              \* per worker: arguments and locals of the running call
    undo,             \* per worker: what a rollback of its transaction restores
    calls,            \* number of calls started so far
    fails,            \* number of failures injected so far
    log,              \* outcomes of the finished calls
    dir,              \* the cache directory exists
    files,            \* cache directory: path -> entry
    now,              \* wall clock, in seconds
    fetches,          \* per worker: source invocations of the running call
    last              \* the get_price_history call that ended last

vars == <<articles, tickers, article_tickers, predictions, actuals, autoinc,
          pc, cur, undo, calls, fails, log, dir, files, now, fetches, last>>

dbTables == <<articles, tickers, article_tickers, predictions, actuals>>
cacheVars == <<dir, files, now, fetches, last>>

---------------------------------------------------------------------------
(* Bounds of the model *)

NumProcs == 2
MaxFails == 1
MaxTickerCalls == 2
MaxArticleCalls == 2
MaxLinkCalls == 2
MaxPredictionCalls == 2
MaxActualCalls == 2
MaxCacheCalls == 2
MaxHours == 3

Procs == 1..NumProcs

---------------------------------------------------------------------------
(* Values *)

\* Python's None and SQL's NULL, among values modelled as strings
None == "None"

\* Python's None where a str, modelled as a sequence of characters, is
\* expected: distinct from every string
NoneStr == <<"None">>

NoUndo == [tbl |-> "none", keys |-> {}, restore |-> {}]
Idle == [op |-> "none", n |-> 0, status |-> "none", ret |-> 0]

\* s[:n]
Take(s, n) == IF Len(s) <= n THEN s ELSE SubSeq(s, 1, n)

\* `x or ""` on a string argument
OrEmpty(s) == IF s = NoneStr THEN <<>> ELSE s

LowerCase == <<"a", "b", "c", "d", "e", "f", "g", "h", "i", "j", "k", "l", "m",
               "n", "o", "p", "q", "r", "s", "t", "u", "v", "w", "x", "y", "z">>
UpperCase == <<"A", "B", "C", "D", "E", "F", "G", "H", "I", "J", "K", "L", "M",
               "N", "O", "P", "Q", "R", "S", "T", "U", "V", "W", "X", "Y", "Z">>

\* str.upper() on one character
UpperChar(c) ==
    IF \E i \in 1..Len(LowerCase) : LowerCase[i] = c
    THEN UpperCase[CHOOSE i \in 1..Len(LowerCase) : LowerCase[i] = c]
    ELSE c

\* str.upper()
Upper(s) == IF s = <<>> THEN <<>> ELSE [i \in 1..Len(s) |-> UpperChar(s[i])]

---------------------------------------------------------------------------
(* Storage: unique keys, transactions *)

\* The unique key each table de-duplicates on.
ArticleKey(r) == r.url_hash
TickerKey(r) == r.symbol
LinkKey(r) == <<r.article_id, r.ticker_id>>
PredictionKey(r) == <<r.article_ticker_id, r.horizon, r.prediction_time>>
ActualKey(r) == <<r.article_ticker_id, r.horizon, r.computed_at>>

KeyOf(tbl, r) ==
    CASE tbl = "articles" -> ArticleKey(r)
      [] tbl = "tickers" -> TickerKey(r)
      [] tbl = "article_tickers" -> LinkKey(r)
      [] tbl = "predictions" -> PredictionKey(r)
      [] tbl = "actuals" -> ActualKey(r)

\* Another worker's open transaction has written the row of this key.
LockedByOther(p, tbl, key) ==
    \E q \in Procs \ {p} : undo[q].tbl = tbl /\ key \in undo[q].keys

\* The undo record after writing the row of `key`, whose row before the
\* write was `before` (a set: empty when the key was absent).
Written(u, tbl, key, before) ==
    IF key \in u.keys THEN u
    ELSE [tbl |-> tbl, keys |-> u.keys \cup {key}, restore |-> u.restore \cup before]

\* Mutant of RolledBack: every statement is committed as it runs, and a
\* failure undoes nothing.
RolledBackNothing(tbl, T, u) == T

\* The table as a rollback of the transaction with undo record u leaves it.
RolledBack(tbl, T, u) ==
    IF u.tbl # tbl THEN T
    ELSE {r \in T : KeyOf(tbl, r) \notin u.keys} \cup u.restore

\* Leaving the `with engine.begin()` block normally: COMMIT, then the call
\* returns cur[p].ret.
Commit(p) ==
    /\ pc[p] = "commit"
    /\ pc' = [pc EXCEPT ![p] = "idle"]
    /\ log' = Append(log, [cur[p] EXCEPT !.status = "returned"])
    /\ cur' = [cur EXCEPT ![p] = Idle]
    /\ undo' = [undo EXCEPT ![p] = NoUndo]
    /\ UNCHANGED <<dbTables, autoinc, calls, fails, cacheVars>>

\* The effect of an exception inside the `with engine.begin()` block:
\* ROLLBACK, and the exception reaches the caller.  `how` is "raised" for
\* an error of the call's own making and "storage_error" for a failure of
\* the database.
Raise(p, how) ==
    /\ articles' = RolledBack("articles", articles, undo[p])
    /\ tickers' = RolledBack("tickers", tickers, undo[p])
    /\ article_tickers' = RolledBack("article_tickers", article_tickers, undo[p])
    /\ predictions' = RolledBack("predictions", predictions, undo[p])
    /\ actuals' = RolledBack("actuals", actuals, undo[p])
    /\ pc' = [pc EXCEPT ![p] = "idle"]
    /\ log' = Append(log, [cur[p] EXCEPT !.status = how])
    /\ cur' = [cur EXCEPT ![p] = Idle]
    /\ undo' = [undo EXCEPT ![p] = NoUndo]

\* A statement or the COMMIT fails (connectivity loss, storage error).
Abort(p) ==
    /\ pc[p] \in {"insert", "select", "commit"}
    /\ fails < MaxFails
    /\ fails' = fails + 1
    /\ Raise(p, "storage_error")
    /\ UNCHANGED <<autoinc, calls, cacheVars>>

---------------------------------------------------------------------------
(* get_or_create_ticker *)

TickerWidth == 10

\* Mutant of NormalizeSymbol: the symbol is not upper-cased.
NormalizeSymbolNoUpper(symbol) == Take(OrEmpty(symbol), TickerWidth)

\* sym = (symbol or "").upper()[:10]
NormalizeSymbol(symbol) == Take(Upper(OrEmpty(symbol)), TickerWidth)

\* INSERT IGNORE INTO tickers (symbol) VALUES (:s)
TickersInsertIgnore(T, sym, id) ==
    IF \E r \in T : TickerKey(r) = sym THEN T
    ELSE T \cup {[id |-> id, symbol |-> sym]}

AAPLlower == <<"a", "a", "p", "l">>
AAPLupper == <<"A", "A", "P", "L">>
Long11 == <<"b", "r", "k", ".", "b", ".", "x", "n", "y", "s", "e">>
Long10 == <<"B", "R", "K", ".", "B", ".", "X", "N", "Y", "S">>

\* The symbols callers pass.
SymbolInputs == {NoneStr, <<>>, AAPLlower, AAPLupper, Long11, Long10}

GetOrCreateTickerCall(p, symbol) ==
    /\ pc[p] = "idle"
    /\ calls < MaxTickerCalls
    /\ calls' = calls + 1
    /\ cur' = [cur EXCEPT ![p] = [op |-> "get_or_create_ticker", n |-> calls',
                                  symbol |-> symbol, sym |-> NormalizeSymbol(symbol),
                                  status |-> "running", ret |-> 0]]
    /\ pc' = [pc EXCEPT ![p] = "insert"]
    /\ UNCHANGED <<dbTables, autoinc, undo, fails, log, cacheVars>>

GetOrCreateTickerInsert(p) ==
    /\ pc[p] = "insert"
    /\ cur[p].op = "get_or_create_ticker"
    /\ ~LockedByOther(p, "tickers", cur[p].sym)
    /\ tickers' = TickersInsertIgnore(tickers, cur[p].sym, autoinc.tickers)
    /\ IF tickers' # tickers
       THEN /\ autoinc' = [autoinc EXCEPT !.tickers = @ + 1]
            /\ undo' = [undo EXCEPT ![p] = Written(@, "tickers", cur[p].sym, {})]
       ELSE UNCHANGED <<autoinc, undo>>
    /\ pc' = [pc EXCEPT ![p] = "select"]
    /\ UNCHANGED <<articles, article_tickers, predictions, actuals, cur, calls,
                   fails, log, cacheVars>>

\* SELECT id FROM tickers WHERE symbol = :s; fetchone(); int(row[0])
GetOrCreateTickerSelect(p) ==
    /\ pc[p] = "select"
    /\ cur[p].op = "get_or_create_ticker"
    /\ LET rows == {r \in tickers : r.symbol = cur[p].sym} IN
       IF rows = {}
       THEN /\ Raise(p, "raised")
            /\ UNCHANGED <<autoinc, calls, fails, cacheVars>>
       ELSE /\ \E r \in rows : cur' = [cur EXCEPT ![p].ret = r.id]
            /\ pc' = [pc EXCEPT ![p] = "commit"]
            /\ UNCHANGED <<dbTables, autoinc, undo, calls, fails, log, cacheVars>>

NextTickers ==
    \E p \in Procs :
        \/ \E s \in SymbolInputs : GetOrCreateTickerCall(p, s)
        \/ GetOrCreateTickerInsert(p)
        \/ GetOrCreateTickerSelect(p)
        \/ Commit(p)
        \/ Abort(p)

---------------------------------------------------------------------------
(* upsert_article *)

\* _sha256(s): the digest of (s or ""); distinct strings have distinct
\* digests.
Sha256(s) == <<"sha256", IF s = None THEN "" ELSE s>>

\* A headline is the first `len` characters of the text `txt`.
HeadlineMax == 65535

\* headline[:65535]
TruncateHeadline(h) == [h EXCEPT !.len = IF @ <= HeadlineMax THEN @ ELSE HeadlineMax]

\* COALESCE(VALUES(col), col)
Coalesce(incoming, stored) == IF incoming # None THEN incoming ELSE stored

\* The row as ON DUPLICATE KEY UPDATE leaves it, given the values v of the
\* INSERT.
ArticlesOnDuplicateKeyUpdate(r, v) ==
    [r EXCEPT !.headline = v.headline,
              !.source = Coalesce(v.source, r.source),
              !.published_dt = Coalesce(v.published_dt, r.published_dt),
              !.scraped_html = Coalesce(v.scraped_html, r.scraped_html),
              !.full_text = Coalesce(v.full_text, r.full_text)]

\* Mutant of ArticlesUpsert: REPLACE INTO, which deletes the row of the key
\* and inserts the new one under a new id.
ArticlesReplace(T, v, id) ==
    {r \in T : ArticleKey(r) # v.url_hash} \cup {[v EXCEPT !.id = id]}

\* Mutant of ArticlesUpsert: every column is overwritten with the incoming
\* value, null or not.
ArticlesOverwrite(T, v, id) ==
    IF \E r \in T : ArticleKey(r) = v.url_hash
    THEN {IF ArticleKey(r) = v.url_hash THEN [v EXCEPT !.id = r.id, !.url = r.url] ELSE r :
             r \in T}
    ELSE T \cup {[v EXCEPT !.id = id]}

\* INSERT INTO articles (...) VALUES (...) ON DUPLICATE KEY UPDATE ...
ArticlesUpsert(T, v, id) ==
    IF \E r \in T : ArticleKey(r) = v.url_hash
    THEN {IF ArticleKey(r) = v.url_hash THEN ArticlesOnDuplicateKeyUpdate(r, v) ELSE r :
             r \in T}
    ELSE T \cup {[v EXCEPT !.id = id]}

\* The parameters of the INSERT, from the call's arguments.
ArticleParams(a) ==
    [id |-> 0, url |-> a.url, url_hash |-> Sha256(a.url),
     headline |-> TruncateHeadline(a.headline), source |-> a.source,
     published_dt |-> a.published_dt, scraped_html |-> a.scraped_html,
     full_text |-> a.full_text]

\* The URLs callers pass.
UrlInputs == {"", "https://a"}

\* The headline lengths and the null arguments callers pass: a short
\* headline with every column, an over-long one with two columns null, a
\* short one with every nullable column null.
ArticleInputs ==
    {[len |-> 12, nulls |-> {}],
     [len |-> 65536, nulls |-> {"source", "scraped_html"}],
     [len |-> 12, nulls |-> {"source", "published_dt", "scraped_html", "full_text"}]}

\* The value call number n passes for a column: null when the column is
\* among `nulls`.
Arg(col, n, nulls) == IF col \in nulls THEN None ELSE "v" \o ToString(n)

UpsertArticleCall(p, url, in) ==
    /\ pc[p] = "idle"
    /\ calls < MaxArticleCalls
    /\ calls' = calls + 1
    /\ cur' = [cur EXCEPT ![p] =
                 [op |-> "upsert_article", n |-> calls', status |-> "running", ret |-> 0,
                  url |-> url, url_hash |-> Sha256(url),
                  headline |-> [txt |-> "h" \o ToString(calls'), len |-> in.len],
                  source |-> Arg("source", calls', in.nulls),
                  published_dt |-> Arg("published_dt", calls', in.nulls),
                  scraped_html |-> Arg("scraped_html", calls', in.nulls),
                  full_text |-> Arg("full_text", calls', in.nulls)]]
    /\ pc' = [pc EXCEPT ![p] = "insert"]
    /\ UNCHANGED <<dbTables, autoinc, undo, fails, log, cacheVars>>

UpsertArticleInsert(p) ==
    /\ pc[p] = "insert"
    /\ cur[p].op = "upsert_article"
    /\ ~LockedByOther(p, "articles", cur[p].url_hash)
    /\ articles' = ArticlesUpsert(articles, ArticleParams(cur[p]), autoinc.articles)
    /\ autoinc' = IF \E r \in articles' : r.id = autoinc.articles
                  THEN [autoinc EXCEPT !.articles = @ + 1]
                  ELSE autoinc
    /\ undo' = [undo EXCEPT ![p] =
                  Written(@, "articles", cur[p].url_hash,
                          {r \in articles : ArticleKey(r) = cur[p].url_hash})]
    /\ pc' = [pc EXCEPT ![p] = "select"]
    /\ UNCHANGED <<tickers, article_tickers, predictions, actuals, cur, calls,
                   fails, log, cacheVars>>

\* SELECT id FROM articles WHERE url_hash = :h; fetchone(); int(row[0])
UpsertArticleSelect(p) ==
    /\ pc[p] = "select"
    /\ cur[p].op = "upsert_article"
    /\ LET rows == {r \in articles : r.url_hash = cur[p].url_hash} IN
       IF rows = {}
       THEN /\ Raise(p, "raised")
            /\ UNCHANGED <<autoinc, calls, fails, cacheVars>>
       ELSE /\ \E r \in rows : cur' = [cur EXCEPT ![p].ret = r.id]
            /\ pc' = [pc EXCEPT ![p] = "commit"]
            /\ UNCHANGED <<dbTables, autoinc, undo, calls, fails, log, cacheVars>>

NextArticles ==
    \E p \in Procs :
        \/ \E url \in UrlInputs, in \in ArticleInputs : UpsertArticleCall(p, url, in)
        \/ UpsertArticleInsert(p)
        \/ UpsertArticleSelect(p)
        \/ Commit(p)
        \/ Abort(p)

---------------------------------------------------------------------------
(* upsert_article_ticker *)

\* The columns of article_tickers a caller may name in `fields`, in the
\* order the dictionaries list them.
LinkColumns == <<"relevance", "vader", "finbert">>

\* fields.keys()
Keys(fields) == SelectSeq(LinkColumns, LAMBDA c : c \in DOMAIN fields)

\* ", ".join(items), as tokens
RECURSIVE JoinComma(_)
JoinComma(items) ==
    IF items = <<>> THEN <<>>
    ELSE IF Len(items) = 1 THEN <<items[1]>>
    ELSE <<items[1], ",">> \o JoinComma(Tail(items))

\* (article_id, ticker_id, {", ".join(fields.keys())})
ColumnList(keys) == <<"article_id", ",", "ticker_id", ",">> \o JoinComma(keys)

\* (:article_id, :ticker_id, {", ".join(":"+k for k in fields.keys())})
ValueList(keys) ==
    <<":article_id", ",", ":ticker_id", ",">>
        \o JoinComma([i \in 1..Len(keys) |-> ":" \o keys[i]])

\* update_clause
UpdateClause(keys) ==
    JoinComma([i \in 1..Len(keys) |-> keys[i] \o " = VALUES(" \o keys[i] \o ")"])

\* SQL's comma-separated lists: one or more items with a comma between two.
IsCommaList(toks) ==
    /\ Len(toks) % 2 = 1
    /\ \A i \in 1..Len(toks) : (toks[i] = ",") <=> (i % 2 = 0)

\* The server parses the statement text that the f-string builds.
LinkStatementParses(keys) ==
    /\ IsCommaList(ColumnList(keys))
    /\ IsCommaList(ValueList(keys))
    /\ IsCommaList(UpdateClause(keys))

\* Mutant of LinkOnDuplicateKeyUpdate: the columns the call does not name are
\* reset to NULL.
LinkOnDuplicateKeyReset(r, fields) ==
    [c \in DOMAIN r |-> IF c \in DOMAIN fields THEN fields[c]
                        ELSE IF c \in {"id", "article_id", "ticker_id"} THEN r[c]
                        ELSE None]

\* ON DUPLICATE KEY UPDATE k = VALUES(k), for each k of fields
LinkOnDuplicateKeyUpdate(r, fields) ==
    [c \in DOMAIN r |-> IF c \in DOMAIN fields THEN fields[c] ELSE r[c]]

\* The row a plain INSERT of the statement adds: columns not listed are NULL.
LinkNewRow(id, article_id, ticker_id, fields) ==
    [c \in {"id", "article_id", "ticker_id", "relevance", "vader", "finbert"} |->
        CASE c = "id" -> id
          [] c = "article_id" -> article_id
          [] c = "ticker_id" -> ticker_id
          [] OTHER -> IF c \in DOMAIN fields THEN fields[c] ELSE None]

\* INSERT INTO article_tickers (...) VALUES (...) ON DUPLICATE KEY UPDATE ...
LinksUpsert(T, id, article_id, ticker_id, fields) ==
    IF \E r \in T : LinkKey(r) = <<article_id, ticker_id>>
    THEN {IF LinkKey(r) = <<article_id, ticker_id>>
          THEN LinkOnDuplicateKeyUpdate(r, fields) ELSE r : r \in T}
    ELSE T \cup {LinkNewRow(id, article_id, ticker_id, fields)}

\* The (article_id, ticker_id) pairs callers pass.
LinkPairs == {<<1, 1>>, <<1, 2>>}

\* The sets of columns callers name in `fields`; the empty set stands for
\* the empty dictionary.
FieldSets == {{}, {"relevance"}, {"vader", "finbert"}, {"relevance", "vader", "finbert"}}

\* `if not fields: fields = {}`
FieldsOrEmpty(in) == IF in.none \/ in.map = <<>> THEN <<>> ELSE in.map

UpsertArticleTickerCall(p, pair, in) ==
    /\ pc[p] = "idle"
    /\ calls < MaxLinkCalls
    /\ calls' = calls + 1
    /\ cur' = [cur EXCEPT ![p] =
                 [op |-> "upsert_article_ticker", n |-> calls', status |-> "running",
                  ret |-> 0, article_id |-> pair[1], ticker_id |-> pair[2],
                  arg |-> in, fields |-> FieldsOrEmpty(in)]]
    /\ pc' = [pc EXCEPT ![p] = "insert"]
    /\ UNCHANGED <<dbTables, autoinc, undo, fails, log, cacheVars>>

UpsertArticleTickerInsert(p) ==
    /\ pc[p] = "insert"
    /\ cur[p].op = "upsert_article_ticker"
    /\ LET key == <<cur[p].article_id, cur[p].ticker_id>> IN
       IF ~LinkStatementParses(Keys(cur[p].fields))
       THEN /\ Raise(p, "raised")
            /\ UNCHANGED <<autoinc, calls, fails, cacheVars>>
       ELSE /\ ~LockedByOther(p, "article_tickers", key)
            /\ article_tickers' = LinksUpsert(article_tickers, autoinc.article_tickers,
                                              cur[p].article_id, cur[p].ticker_id,
                                              cur[p].fields)
            /\ autoinc' = IF \E r \in article_tickers' \ article_tickers :
                                r.id = autoinc.article_tickers
                          THEN [autoinc EXCEPT !.article_tickers = @ + 1]
                          ELSE autoinc
            /\ undo' = [undo EXCEPT ![p] =
                          Written(@, "article_tickers", key,
                                  {r \in article_tickers : LinkKey(r) = key})]
            /\ pc' = [pc EXCEPT ![p] = "select"]
            /\ UNCHANGED <<articles, tickers, predictions, actuals, cur, calls,
                           fails, log, cacheVars>>

\* SELECT id FROM article_tickers WHERE article_id = :a AND ticker_id = :t
UpsertArticleTickerSelect(p) ==
    /\ pc[p] = "select"
    /\ cur[p].op = "upsert_article_ticker"
    /\ LET rows == {r \in article_tickers : /\ r.article_id = cur[p].article_id
                                            /\ r.ticker_id = cur[p].ticker_id} IN
       IF rows = {}
       THEN /\ Raise(p, "raised")
            /\ UNCHANGED <<autoinc, calls, fails, cacheVars>>
       ELSE /\ \E r \in rows : cur' = [cur EXCEPT ![p].ret = r.id]
            /\ pc' = [pc EXCEPT ![p] = "commit"]
            /\ UNCHANGED <<dbTables, autoinc, undo, calls, fails, log, cacheVars>>

NextLinks ==
    \E p \in Procs :
        \/ \E pair \in LinkPairs, cols \in FieldSets :
               UpsertArticleTickerCall(p, pair,
                   [none |-> FALSE, map |-> [c \in cols |-> "v" \o ToString(calls + 1)]])
        \/ \E pair \in LinkPairs :
               UpsertArticleTickerCall(p, pair, [none |-> TRUE, map |-> <<>>])
        \/ UpsertArticleTickerInsert(p)
        \/ UpsertArticleTickerSelect(p)
        \/ Commit(p)
        \/ Abort(p)

---------------------------------------------------------------------------
(* insert_prediction *)

\* Mutant of PredictionsInsertIgnore: a duplicate key overwrites the stored
\* values (INSERT ... ON DUPLICATE KEY UPDATE).
PredictionsInsertOrUpdate(T, v, id) ==
    IF \E r \in T : PredictionKey(r) = PredictionKey(v)
    THEN {IF PredictionKey(r) = PredictionKey(v)
          THEN [r EXCEPT !.gk_prob = v.gk_prob, !.predicted_pct = v.predicted_pct]
          ELSE r : r \in T}
    ELSE T \cup {[v EXCEPT !.id = id]}

\* INSERT IGNORE INTO predictions (...) VALUES (:at, :hz, :gk, :pp, :pt)
PredictionsInsertIgnore(T, v, id) ==
    IF \E r \in T : PredictionKey(r) = PredictionKey(v) THEN T
    ELSE T \cup {[v EXCEPT !.id = id]}

\* The (article_ticker_id, horizon, prediction_time) keys callers pass.
PredictionKeys == {<<1, "1d", "t1">>, <<2, "1d", "t1">>, <<1, "5d", "t1">>, <<1, "1d", "t2">>}

\* The null arguments callers pass.
PredictionNulls == {{}, {"gk_prob"}, {"gk_prob", "predicted_pct"}}

InsertPredictionCall(p, key, nulls) ==
    /\ pc[p] = "idle"
    /\ calls < MaxPredictionCalls
    /\ calls' = calls + 1
    /\ cur' = [cur EXCEPT ![p] =
                 [op |-> "insert_prediction", n |-> calls', status |-> "running", ret |-> 0,
                  article_ticker_id |-> key[1], horizon |-> key[2],
                  prediction_time |-> key[3],
                  gk_prob |-> Arg("gk_prob", calls', nulls),
                  predicted_pct |-> Arg("predicted_pct", calls', nulls)]]
    /\ pc' = [pc EXCEPT ![p] = "insert"]
    /\ UNCHANGED <<dbTables, autoinc, undo, fails, log, cacheVars>>

\* The parameters of the INSERT, from the call's arguments.
PredictionParams(a) ==
    [id |-> 0, article_ticker_id |-> a.article_ticker_id, horizon |-> a.horizon,
     gk_prob |-> a.gk_prob, predicted_pct |-> a.predicted_pct,
     prediction_time |-> a.prediction_time]

InsertPredictionInsert(p) ==
    /\ pc[p] = "insert"
    /\ cur[p].op = "insert_prediction"
    /\ LET v == PredictionParams(cur[p]) IN
       /\ ~LockedByOther(p, "predictions", PredictionKey(v))
       /\ predictions' = PredictionsInsertIgnore(predictions, v, autoinc.predictions)
       /\ IF predictions' # predictions
          THEN /\ autoinc' = [autoinc EXCEPT !.predictions = @ + 1]
               /\ undo' = [undo EXCEPT ![p] =
                             Written(@, "predictions", PredictionKey(v),
                                     {r \in predictions : PredictionKey(r) = PredictionKey(v)})]
          ELSE UNCHANGED <<autoinc, undo>>
    /\ pc' = [pc EXCEPT ![p] = "commit"]
    /\ UNCHANGED <<articles, tickers, article_tickers, actuals, cur, calls,
                   fails, log, cacheVars>>

NextPredictions ==
    \E p \in Procs :
        \/ \E key \in PredictionKeys, nulls \in PredictionNulls :
               InsertPredictionCall(p, key, nulls)
        \/ InsertPredictionInsert(p)
        \/ Commit(p)
        \/ Abort(p)

---------------------------------------------------------------------------
(* bulk_insert_actuals *)

\* Mutant of BulkIsNoop: the empty batch is not returned early.
BulkNeverNoop(rows) == FALSE

\* rows = list(rows); if not rows: return
BulkIsNoop(rows) == rows = <<>>

\* INSERT IGNORE INTO actuals (...) VALUES (...), for one record of the batch
ActualsInsertIgnore(T, v, id) ==
    IF \E r \in T : ActualKey(r) = ActualKey(v) THEN T
    ELSE T \cup {[id |-> id, article_ticker_id |-> v.article_ticker_id,
                  horizon |-> v.horizon, actual_pct |-> v.actual_pct,
                  computed_at |-> v.computed_at]}

\* The (article_ticker_id, horizon, computed_at) keys of the batches callers
\* pass: empty, one record, two records in either order, the same key twice.
ActualBatches ==
    {<<>>,
     <<<<1, "1d", "c1">>>>,
     <<<<1, "1d", "c1">>, <<1, "5d", "c1">>>>,
     <<<<1, "5d", "c1">>, <<1, "1d", "c1">>>>,
     <<<<1, "1d", "c1">>, <<1, "1d", "c1">>>>,
     <<<<2, "1d", "c1">>, <<1, "1d", "c2">>>>}

\* The batch of call number n with the given keys: the record at position i
\* carries the actual_pct <<n, i>>.
BatchOf(n, keys) ==
    [i \in 1..Len(keys) |->
        [article_ticker_id |-> keys[i][1], horizon |-> keys[i][2],
         actual_pct |-> <<n, i>>, computed_at |-> keys[i][3]]]

BulkInsertActualsCall(p, keys) ==
    /\ pc[p] = "idle"
    /\ calls < MaxActualCalls
    /\ calls' = calls + 1
    /\ LET rows == IF keys = <<>> THEN <<>> ELSE BatchOf(calls', keys)
           call == [op |-> "bulk_insert_actuals", n |-> calls', status |-> "running",
                    ret |-> 0, rows |-> rows, next |-> 1, began |-> FALSE]
       IN  IF BulkIsNoop(rows)
           THEN /\ log' = Append(log, [call EXCEPT !.status = "returned"])
                /\ UNCHANGED <<pc, cur>>
           ELSE /\ cur' = [cur EXCEPT ![p] = [call EXCEPT !.began = TRUE]]
                /\ pc' = [pc EXCEPT ![p] = "insert"]
                /\ UNCHANGED log
    /\ UNCHANGED <<dbTables, autoinc, undo, fails, cacheVars>>

\* The record of the batch that worker p's executemany is to insert next.
NextRecord(p) == cur[p].rows[cur[p].next]

\* Worker p's executemany has a record left and waits for the row lock of
\* another worker's open transaction.
BulkWaits(p) ==
    /\ pc[p] = "insert"
    /\ cur[p].op = "bulk_insert_actuals"
    /\ cur[p].next <= Len(cur[p].rows)
    /\ LockedByOther(p, "actuals", ActualKey(NextRecord(p)))

\* conn.execute(text(...), rows): the records are inserted in order.
BulkInsertActualsRow(p) ==
    /\ pc[p] = "insert"
    /\ cur[p].op = "bulk_insert_actuals"
    /\ IF cur[p].next > Len(cur[p].rows)
       THEN /\ pc' = [pc EXCEPT ![p] = "commit"]
            /\ UNCHANGED <<actuals, autoinc, undo, cur>>
       ELSE /\ ~BulkWaits(p)
            /\ actuals' = ActualsInsertIgnore(actuals, NextRecord(p), autoinc.actuals)
            /\ IF actuals' # actuals
               THEN /\ autoinc' = [autoinc EXCEPT !.actuals = @ + 1]
                    /\ undo' = [undo EXCEPT ![p] =
                                  Written(@, "actuals", ActualKey(NextRecord(p)), {})]
               ELSE UNCHANGED <<autoinc, undo>>
            /\ cur' = [cur EXCEPT ![p].next = @ + 1]
            /\ pc' = [pc EXCEPT ![p] =
                        IF cur[p].next = Len(cur[p].rows) THEN "commit" ELSE "insert"]
    /\ UNCHANGED <<articles, tickers, article_tickers, predictions, calls,
                   fails, log, cacheVars>>

\* Two transactions wait for each other's row lock: the server rolls one of
\* them back, and its statement raises.
BulkDeadlock(p) ==
    /\ BulkWaits(p)
    /\ \E q \in Procs \ {p} :
          /\ BulkWaits(q)
          /\ ActualKey(NextRecord(p)) \in undo[q].keys
          /\ ActualKey(NextRecord(q)) \in undo[p].keys
    /\ Raise(p, "storage_error")
    /\ UNCHANGED <<autoinc, calls, fails, cacheVars>>

NextActuals ==
    \E p \in Procs :
        \/ \E keys \in ActualBatches : BulkInsertActualsCall(p, keys)
        \/ BulkInsertActualsRow(p)
        \/ BulkDeadlock(p)
        \/ Commit(p)
        \/ Abort(p)

---------------------------------------------------------------------------
(* get_price_history *)

DefaultCacheDir == "price_data_cache"
SecondsPerHour == 3600

\* The standard columns of the frames get_price_history returns.
CanonicalColumns == <<"date", "open", "high", "low", "close", "adj_close", "volume">>

\* The columns of the frame yf.download returns with auto_adjust=False; its
\* index holds the dates.
ProviderColumns == <<"Adj Close", "Close", "High", "Low", "Open", "Volume">>

\* A frame: column names and rows; of a row only its date (a day number) is
\* kept, its prices and volume are left out.
NoFrame == [cols |-> <<>>, rows |-> <<>>]

\* A file of the cache directory.  Its content is the frame its text spells:
\* a header line and one line per row.  NoFrame as content is the file of
\* zero bytes.
NoFile == [exists |-> FALSE, mtime |-> 0, content |-> NoFrame]

\* stable insertion of row r into the sorted sequence s
RECURSIVE InsertByDate(_, _)
InsertByDate(r, s) ==
    IF s = <<>> THEN <<r>>
    ELSE IF s[Len(s)].date <= r.date THEN Append(s, r)
    ELSE Append(InsertByDate(r, SubSeq(s, 1, Len(s) - 1)), s[Len(s)])

\* df.sort_values("date").reset_index(drop=True)
RECURSIVE SortByDate(_)
SortByDate(rows) ==
    IF rows = <<>> THEN <<>>
    ELSE InsertByDate(rows[Len(rows)], SortByDate(SubSeq(rows, 1, Len(rows) - 1)))

\* ticker.replace("/", "_")
ReplaceSlash(s) ==
    IF s = <<>> THEN <<>> ELSE [i \in 1..Len(s) |-> IF s[i] = "/" THEN "_" ELSE s[i]]

\* _build_cache_path: os.path.join(cache_dir, f"{safe_ticker}_{interval}_
\* {start_date}_{end_date}.csv")
BuildCachePath(ticker, start_date, end_date, interval, cache_dir) ==
    <<cache_dir, "/">> \o Upper(ReplaceSlash(ticker))
        \o <<"_", interval, "_", start_date, "_", end_date, ".csv">>

\* Mutant of IsFresh: the age limit is taken for minutes.
IsFreshMinutes(age, max_age_hours) == age < max_age_hours * 60

\* age.total_seconds() < max_age_hours * 3600
IsFresh(age, max_age_hours) == age < max_age_hours * SecondsPerHour

\* pd.read_csv(cache_path, parse_dates=["date"]) raises on a file without a
\* header line and on one without a date column.
CsvReadable(content) ==
    /\ content.cols # <<>>
    /\ \E i \in 1..Len(content.cols) : content.cols[i] = "date"

\* pd.read_csv(...).sort_values("date").reset_index(drop=True)
ReadCache(content) == [cols |-> content.cols, rows |-> SortByDate(content.rows)]

\* df.rename(columns={...})
RenameColumn(c) ==
    CASE c = "Open" -> "open"
      [] c = "High" -> "high"
      [] c = "Low" -> "low"
      [] c = "Close" -> "close"
      [] c = "Adj Close" -> "adj_close"
      [] c = "Volume" -> "volume"
      [] OTHER -> c

\* Step 3 of get_price_history on the downloaded frame: rename, date column
\* from the index, the standard columns in order, sort by date.
Normalize(raw) == [cols |-> CanonicalColumns, rows |-> SortByDate(raw.rows)]

\* df[[...]] raises KeyError unless every standard column is there.
HasStandardColumns(raw) ==
    \A i \in 2..Len(CanonicalColumns) :
        \E j \in 1..Len(raw.cols) : RenameColumn(raw.cols[j]) = CanonicalColumns[i]

\* What yf.download does: raise, return no rows, return two bars in date
\* order or out of it, or two bars of the same date.
SourceOutcomes == {"error", "empty", "sorted", "unsorted", "duplicate"}
SourceFrame(outcome) ==
    [cols |-> ProviderColumns,
     rows |-> CASE outcome = "sorted" -> <<[date |-> 1], [date |-> 2]>>
                [] outcome = "unsorted" -> <<[date |-> 2], [date |-> 1]>>
                [] outcome = "duplicate" -> <<[date |-> 1], [date |-> 1]>>
                [] OTHER -> <<>>]

\* What a file holds while to_csv has written only part of its text: the
\* header line up to its second column, or the header line and the first
\* row.  (Before that it holds nothing, or a piece of the header without
\* the date column, which read_csv takes alike.)
PartialContents(df) ==
    {[cols |-> SubSeq(df.cols, 1, 2), rows |-> <<>>],
     [cols |-> df.cols, rows |-> SubSeq(df.rows, 1, 1)]}

MSFTlower == <<"m", "s", "f", "t">>

\* The tickers and the age limits callers pass; the dates and the interval
\* are the same in every call.
CacheTickers == {NoneStr, MSFTlower}
MaxAges == {2}
StartDate == "2024-01-01"
EndDate == "2024-01-31"
Interval == "1d"

CachePaths ==
    {BuildCachePath(t, StartDate, EndDate, Interval, DefaultCacheDir) :
        t \in CacheTickers \ {NoneStr}}

\* The state of a call, and of no call.
NoCall ==
    [op |-> "none", status |-> "none", ticker |-> NoneStr, max_cache_age_hours |-> 0,
     cache_path |-> <<>>, seenExists |-> FALSE, seenAge |-> 0,
     readFailed |-> FALSE, readContent |-> NoFrame,
     source |-> "none", kind |-> "none", df |-> NoFrame, fetches |-> 0]

\* The call of worker p ends as `call` tells.
Return(p, call) ==
    /\ last' = call
    /\ cur' = [cur EXCEPT ![p] = Idle]
    /\ pc' = [pc EXCEPT ![p] = "idle"]
    /\ fetches' = [fetches EXCEPT ![p] = 0]

\* The call of worker p ends after f calls of the source: it returns df
\* (status "returned") or an exception leaves it (status "raised").
Finish(p, status, kind, df, f) ==
    Return(p, [cur[p] EXCEPT !.status = status, !.kind = kind, !.df = df, !.fetches = f])

\* The call up to its first look at the file.  _build_cache_path:
\* _ensure_cache_dir creates the directory, then ticker.replace raises
\* AttributeError on None.  _is_cache_fresh: the file is there and younger
\* than the limit.
GetPriceHistoryCall(p, ticker, max_age) ==
    /\ pc[p] = "idle"
    /\ calls < MaxCacheCalls
    /\ calls' = calls + 1
    /\ dir' = TRUE
    /\ LET call == [NoCall EXCEPT !.op = "get_price_history", !.status = "running",
                                  !.ticker = ticker, !.max_cache_age_hours = max_age]
       IN
       IF ticker = NoneStr
       THEN /\ last' = [call EXCEPT !.status = "raised"]
            /\ UNCHANGED <<pc, cur>>
       ELSE LET cache_path == BuildCachePath(ticker, StartDate, EndDate, Interval,
                                             DefaultCacheDir)
                entry == files[cache_path]
                age == now - entry.mtime
            IN  /\ cur' = [cur EXCEPT ![p] =
                             [call EXCEPT !.cache_path = cache_path,
                                          !.seenExists = entry.exists,
                                          !.seenAge = IF entry.exists THEN age ELSE 0]]
                /\ pc' = [pc EXCEPT ![p] =
                            IF entry.exists /\ IsFresh(age, max_age)
                            THEN "read" ELSE "download"]
                /\ UNCHANGED last
    /\ UNCHANGED <<dbTables, autoinc, undo, fails, log, files, now, fetches>>

\* Mutant of ReadCacheStep: reading the file renews its time.
ReadCacheStepTouches(p) ==
    /\ pc[p] = "read"
    /\ LET content == files[cur[p].cache_path].content IN
       IF CsvReadable(content)
       THEN /\ last' = [cur[p] EXCEPT !.status = "returned", !.kind = "cache",
                                      !.df = ReadCache(content),
                                      !.readContent = content, !.fetches = fetches[p]]
            /\ cur' = [cur EXCEPT ![p] = Idle]
            /\ pc' = [pc EXCEPT ![p] = "idle"]
            /\ files' = [files EXCEPT ![cur[p].cache_path].mtime = now]
       ELSE /\ cur' = [cur EXCEPT ![p].readFailed = TRUE, ![p].readContent = content]
            /\ pc' = [pc EXCEPT ![p] = "download"]
            /\ UNCHANGED <<last, files>>
    /\ UNCHANGED <<dbTables, autoinc, undo, calls, fails, log, dir, now, fetches>>

\* 1) Try cache: read_csv, sort, return; any exception falls through.
ReadCacheStep(p) ==
    /\ pc[p] = "read"
    /\ LET content == files[cur[p].cache_path].content IN
       IF CsvReadable(content)
       THEN /\ last' = [cur[p] EXCEPT !.status = "returned", !.kind = "cache",
                                      !.df = ReadCache(content),
                                      !.readContent = content, !.fetches = fetches[p]]
            /\ cur' = [cur EXCEPT ![p] = Idle]
            /\ pc' = [pc EXCEPT ![p] = "idle"]
       ELSE /\ cur' = [cur EXCEPT ![p].readFailed = TRUE, ![p].readContent = content]
            /\ pc' = [pc EXCEPT ![p] = "download"]
            /\ UNCHANGED last
    /\ UNCHANGED <<dbTables, autoinc, undo, calls, fails, log, dir, files, now, fetches>>

\* Mutant of EmptyResult: the empty frame as yf.download gave it, without the
\* standard columns.
EmptyResultNoColumns == [cols |-> ProviderColumns, rows |-> <<>>]

\* pd.DataFrame(columns=[...]): the empty, correctly-shaped frame.
EmptyResult == [cols |-> CanonicalColumns, rows |-> <<>>]

\* Mutant of SourceError: the exception is caught and the stored copy served.
SourceErrorServesStale(p, call) ==
    /\ Return(p, [call EXCEPT !.status = "returned", !.kind = "cache",
                              !.df = ReadCache(files[call.cache_path].content)])
    /\ UNCHANGED files

\* yf.download raises: nothing catches the exception.
SourceError(p, call) ==
    /\ Return(p, [call EXCEPT !.status = "raised"])
    /\ UNCHANGED files

\* Mutant of SourceEmpty: the empty frame is saved to the cache as well.
SourceEmptyCached(p, call) ==
    /\ Return(p, [call EXCEPT !.status = "returned", !.kind = "empty", !.df = EmptyResult])
    /\ files' = [files EXCEPT ![call.cache_path] =
                    [exists |-> TRUE, mtime |-> now, content |-> EmptyResult]]

\* if df.empty: the empty frame is returned at once.
SourceEmpty(p, call) ==
    /\ Return(p, [call EXCEPT !.status = "returned", !.kind = "empty", !.df = EmptyResult])
    /\ UNCHANGED files

\* 3) Normalize columns; df[[...]] raises KeyError on a missing column.
SourceRows(p, call, raw) ==
    /\ IF HasStandardColumns(raw)
       THEN /\ cur' = [cur EXCEPT ![p] = [call EXCEPT !.df = Normalize(raw), !.fetches = 0]]
            /\ pc' = [pc EXCEPT ![p] = "save"]
            /\ fetches' = [fetches EXCEPT ![p] = @ + 1]
            /\ UNCHANGED last
       ELSE Return(p, [call EXCEPT !.status = "raised"])
    /\ UNCHANGED files

\* 2) Download from yfinance, then one of the three ways on.
DownloadStep(p, outcome) ==
    /\ pc[p] = "download"
    /\ LET raw == SourceFrame(outcome)
           call == [cur[p] EXCEPT !.fetches = fetches[p] + 1,
                                  !.source = CASE outcome = "error" -> "error"
                                               [] outcome # "error" /\ raw.rows = <<>> -> "empty"
                                               [] OTHER -> "rows"]
       IN  CASE call.source = "error" -> SourceError(p, call)
             [] call.source = "empty" -> SourceEmpty(p, call)
             [] OTHER -> SourceRows(p, call, raw)
    /\ UNCHANGED <<dbTables, autoinc, undo, calls, fails, log, dir, now>>

\* 4) Save to cache: to_csv opens the file for writing, which empties it.
SaveOpenStep(p) ==
    /\ pc[p] = "save"
    /\ files' = [files EXCEPT ![cur[p].cache_path] =
                    [exists |-> TRUE, mtime |-> now, content |-> NoFrame]]
    /\ pc' = [pc EXCEPT ![p] = "write"]
    /\ UNCHANGED <<dbTables, autoinc, undo, cur, calls, fails, log, dir, now, fetches,
                   last>>

\* to_csv has written part of the text to the file.
WritePartStep(p) ==
    /\ pc[p] = "write"
    /\ files[cur[p].cache_path].content = NoFrame
    /\ \E part \in PartialContents(cur[p].df) :
          files' = [files EXCEPT ![cur[p].cache_path] =
                       [exists |-> TRUE, mtime |-> now, content |-> part]]
    /\ UNCHANGED <<dbTables, autoinc, undo, pc, cur, calls, fails, log, dir, now, fetches,
                   last>>

\* Mutant of WriteCloseStep: to_csv returns without having written the rest
\* of the text.
WriteCloseStepNoFlush(p) ==
    /\ pc[p] = "write"
    /\ Finish(p, "returned", "fetched", cur[p].df, fetches[p])
    /\ UNCHANGED <<dbTables, autoinc, undo, calls, fails, log, dir, files, now>>

\* to_csv has written the whole text and closed the file; return df.
WriteCloseStep(p) ==
    /\ pc[p] = "write"
    /\ files' = [files EXCEPT ![cur[p].cache_path] =
                    [exists |-> TRUE, mtime |-> now, content |-> cur[p].df]]
    /\ Finish(p, "returned", "fetched", cur[p].df, fetches[p])
    /\ UNCHANGED <<dbTables, autoinc, undo, calls, fails, log, dir, now>>

\* Mutant of WriteFailStep: the exception of to_csv leaves the call.
WriteFailStepRaises(p) ==
    /\ pc[p] \in {"save", "write"}
    /\ fails < MaxFails
    /\ fails' = fails + 1
    /\ Finish(p, "raised", "none", NoFrame, fetches[p])
    /\ UNCHANGED <<dbTables, autoinc, undo, calls, log, dir, files, now>>

\* to_csv raises (the file cannot be opened, the disk is full): the
\* exception is swallowed, the file stays as it is, return df.
WriteFailStep(p) ==
    /\ pc[p] \in {"save", "write"}
    /\ fails < MaxFails
    /\ fails' = fails + 1
    /\ Finish(p, "returned", "fetched", cur[p].df, fetches[p])
    /\ UNCHANGED <<dbTables, autoinc, undo, calls, log, dir, files, now>>

\* An hour passes.
Tick ==
    /\ now < MaxHours * SecondsPerHour
    /\ now' = now + SecondsPerHour
    /\ UNCHANGED <<dbTables, autoinc, pc, cur, undo, calls, fails, log, dir, files,
                   fetches, last>>

NextCache ==
    \/ Tick
    \/ \E p \in Procs :
        \/ \E t \in CacheTickers, a \in MaxAges : GetPriceHistoryCall(p, t, a)
        \/ ReadCacheStep(p)
        \/ \E o \in SourceOutcomes : DownloadStep(p, o)
        \/ SaveOpenStep(p)
        \/ WritePartStep(p)
        \/ WriteCloseStep(p)
        \/ WriteFailStep(p)

---------------------------------------------------------------------------
(* _build_cache_path *)

BRKBlower == <<"b", "r", "k", "/", "b">>
BRKBslash == <<"B", "R", "K", "/", "B">>
BRKBunderscore == <<"B", "R", "K", "_", "B">>

\* The tickers, intervals and start dates callers pass.
PathTickers == {NoneStr, BRKBlower, BRKBslash, BRKBunderscore}
PathIntervals == {"1d", "1h"}
PathStartDates == {StartDate, "2024-01-15"}

\* Worker p calls _build_cache_path and keeps what it returns.
BuildCachePathCall(p, ticker, interval, start_date) ==
    /\ pc[p] = "idle"
    /\ dir' = TRUE
    /\ cur' = [cur EXCEPT ![p] =
                 [op |-> "_build_cache_path",
                  status |-> IF ticker = NoneStr THEN "raised" ELSE "returned",
                  ticker |-> ticker, interval |-> interval,
                  start_date |-> start_date, end_date |-> EndDate,
                  cache_path |-> IF ticker = NoneStr THEN <<>>
                                 ELSE BuildCachePath(ticker, start_date, EndDate, interval,
                                                     DefaultCacheDir)]]
    /\ UNCHANGED <<dbTables, autoinc, pc, undo, calls, fails, log, files, now, fetches,
                   last>>

NextCachePath ==
    \E p \in Procs, t \in PathTickers, i \in PathIntervals, s \in PathStartDates :
        BuildCachePathCall(p, t, i, s)

---------------------------------------------------------------------------
(* Initial state and specifications *)

Init ==
    /\ articles = {}
    /\ tickers = {}
    /\ article_tickers = {}
    /\ predictions = {}
    /\ actuals = {}
    /\ autoinc = [articles |-> 1, tickers |-> 1, article_tickers |-> 1,
                  predictions |-> 1, actuals |-> 1]
    /\ pc = [p \in Procs |-> "idle"]
    /\ cur = [p \in Procs |-> Idle]
    /\ undo = [p \in Procs |-> NoUndo]
    /\ calls = 0
    /\ fails = 0
    /\ log = <<>>
    /\ dir = FALSE
    /\ files = [path \in CachePaths |-> NoFile]
    /\ now = 0
    /\ fetches = [p \in Procs |-> 0]
    /\ last = NoCall

SpecTickers == Init /\ [][NextTickers]_vars
SpecArticles == Init /\ [][NextArticles]_vars
SpecLinks == Init /\ [][NextLinks]_vars
SpecPredictions == Init /\ [][NextPredictions]_vars
SpecActuals == Init /\ [][NextActuals]_vars
SpecCache == Init /\ [][NextCache]_vars
SpecCachePath == Init /\ [][NextCachePath]_vars

---------------------------------------------------------------------------
(* Properties *)

\* The calls that returned to their caller, by position in the log.
Returned == {i \in 1..Len(log) : log[i].status = "returned"}

\* Calls i and j ran concurrently: j started before i and ended after it.
Overlapped(i, j) == i < j /\ log[j].n < log[i].n

\* A symbol as the tickers table is to hold it: upper case, at most ten
\* characters.
C3_Normalized(symbol) == Take(Upper(OrEmpty(symbol)), 10)

\* C3: however get_or_create_ticker calls interleave, once a call has
\* returned there is exactly one tickers row for its normalized symbol, that
\* row holds the normalized symbol and the returned ID, and every call whose
\* symbol normalizes to the same value ("aapl", "AAPL") returned that ID.
C3_TickerRaceConvergence ==
    \A i \in Returned :
        LET rows == {r \in tickers :
                        C3_Normalized(r.symbol) = C3_Normalized(log[i].symbol)}
        IN  /\ Cardinality(rows) = 1
            /\ \A r \in rows : r.symbol = C3_Normalized(log[i].symbol)
                                /\ r.id = log[i].ret
            /\ \A j \in Returned :
                   C3_Normalized(log[j].symbol) = C3_Normalized(log[i].symbol)
                   => log[j].ret = log[i].ret

\* C3 witness: two overlapping calls, one for "aapl" and one for "AAPL",
\* both returned, with the same ID.
C3_Witness ==
    \E i, j \in Returned :
        /\ Overlapped(i, j)
        /\ log[i].op = "get_or_create_ticker"
        /\ {log[i].symbol, log[j].symbol} = {AAPLlower, AAPLupper}
        /\ log[i].ret = log[j].ret


\* C1: however upsert_article calls interleave, no two articles rows share a
\* URL hash; once a call has returned there is exactly one row for its
\* URL's hash, that row still has the returned ID, and every call for the
\* same URL returned that ID.
C1_OneRowPerUrlHash ==
    /\ \A r1, r2 \in articles : r1.url_hash = r2.url_hash => r1 = r2
    /\ \A i \in Returned :
          /\ Cardinality({r \in articles : r.url_hash = log[i].url_hash}) = 1
          /\ \A r \in articles : r.url_hash = log[i].url_hash => r.id = log[i].ret
          /\ \A j \in Returned : log[j].url = log[i].url => log[j].ret = log[i].ret

\* C1 witness: two overlapping upsert_article calls for one URL have both
\* returned, with the same ID.
C1_Witness ==
    \E i, j \in Returned :
        /\ Overlapped(i, j)
        /\ log[i].op = "upsert_article"
        /\ log[i].url = log[j].url
        /\ log[i].ret = log[j].ret

\* The nullable columns of articles that are merged with COALESCE.
C2_Columns == {"source", "published_dt", "scraped_html", "full_text"}

\* The workers whose open transaction has just upserted a URL that already
\* had a row.
C2_Updaters ==
    {p \in Procs : /\ cur[p].op = "upsert_article"
                   /\ pc[p] \in {"select", "commit"}
                   /\ undo[p].restore # {}}

\* The value of column c that the returned calls for URL hash h leave: the
\* most recent non-null one, null if there is none.
C2_LastNonNull(h, c) ==
    LET S == {i \in Returned : log[i].url_hash = h /\ log[i][c] # None} IN
    IF S = {} THEN None ELSE log[CHOOSE i \in S : \A j \in S : j <= i][c]

\* The merge of the four nullable columns, in one upsert of an existing row
\* and over the whole history of a URL.
C2_CoalesceMerge ==
    /\ \A p \in C2_Updaters : \A old \in undo[p].restore :
          \A new \in {r \in articles : r.url_hash = cur[p].url_hash} :
             \A c \in C2_Columns :
                new[c] = IF cur[p][c] # None THEN cur[p][c] ELSE old[c]
    /\ \A r \in articles :
          (\A p \in Procs : r.url_hash \notin undo[p].keys)
          => \A c \in C2_Columns : r[c] = C2_LastNonNull(r.url_hash, c)

\* C2 as amended: an upsert of a URL that already has a row stores the first
\* 65535 characters of the incoming headline; each of source, published_dt,
\* scraped_html and full_text becomes the incoming value if that is non-null
\* and keeps the stored value otherwise, so that after any sequence of
\* upserts it is the most recent non-null value supplied.
C2_MergePolicy ==
    /\ C2_CoalesceMerge
    /\ \A p \in C2_Updaters :
          \A new \in {r \in articles : r.url_hash = cur[p].url_hash} :
             /\ new.headline.txt = cur[p].headline.txt
             /\ new.headline.len = IF cur[p].headline.len <= 65535
                                   THEN cur[p].headline.len ELSE 65535

\* C2 as stated: the stored headline becomes the incoming headline, whole.
C2_HeadlineIsIncoming ==
    /\ C2_CoalesceMerge
    /\ \A p \in C2_Updaters :
          \A new \in {r \in articles : r.url_hash = cur[p].url_hash} :
             new.headline = cur[p].headline

\* C2 witness: an upsert of an existing row, with an over-long headline and
\* a null source, has kept the stored non-null source.
C2_Witness ==
    \E p \in C2_Updaters : \E old \in undo[p].restore :
        /\ cur[p].source = None
        /\ old.source # None
        /\ cur[p].headline.len > 65535
        /\ \E r \in articles : r.url_hash = cur[p].url_hash /\ r.source = old.source


\* The statement of upsert_article_ticker, with a non-empty fields mapping,
\* has just run for worker p.
C4_Upserted(p) ==
    /\ cur[p].op = "upsert_article_ticker"
    /\ cur[p].fields # <<>>
    /\ pc[p] = "insert"
    /\ pc'[p] = "select"

\* The rows of article_tickers other than the one of (article_id, ticker_id).
C4_OtherRows(T, article_id, ticker_id) ==
    {r \in T : r.article_id # article_id \/ r.ticker_id # ticker_id}

\* No two rows share an (article_id, ticker_id) pair, and the pair of every
\* call that returned has exactly one row, with the returned ID.
C4_OneRowPerPair ==
    /\ \A r1, r2 \in article_tickers :
          (r1.article_id = r2.article_id /\ r1.ticker_id = r2.ticker_id) => r1 = r2
    /\ \A i \in Returned :
          /\ Cardinality(article_tickers
                           \ C4_OtherRows(article_tickers, log[i].article_id,
                                          log[i].ticker_id)) = 1
          /\ \A r \in article_tickers :
                (r.article_id = log[i].article_id /\ r.ticker_id = log[i].ticker_id)
                => r.id = log[i].ret

\* C4: after any sequence of upsert_article_ticker calls there is one row
\* per (article ID, ticker ID) pair, and a call on an existing pair sets
\* exactly the columns named in its non-empty fields mapping, leaving the
\* other columns of that row, its ID, and every other row unchanged.
C4_UpsertTouchesOnlySuppliedFields ==
    /\ []C4_OneRowPerPair
    /\ [][\A p \in Procs : C4_Upserted(p) =>
            LET a == cur[p].article_id
                t == cur[p].ticker_id
                old == article_tickers \ C4_OtherRows(article_tickers, a, t)
                new == article_tickers' \ C4_OtherRows(article_tickers', a, t)
            IN  /\ C4_OtherRows(article_tickers', a, t) = C4_OtherRows(article_tickers, a, t)
                /\ Cardinality(new) = 1
                /\ \A o \in old, n \in new :
                      /\ n.id = o.id
                      /\ \A c \in {"relevance", "vader", "finbert"} :
                            n[c] = IF c \in DOMAIN cur[p].fields
                                   THEN cur[p].fields[c] ELSE o[c]]_vars

\* C4 witness: a call naming only vader and finbert has updated a row whose
\* relevance was set by an earlier call, and the relevance is still there.
C4_Witness ==
    \E p \in Procs : \E old \in undo[p].restore :
        /\ cur[p].op = "upsert_article_ticker"
        /\ pc[p] = "select"
        /\ DOMAIN cur[p].fields = {"vader", "finbert"}
        /\ old.relevance # None
        /\ \E r \in article_tickers :
              /\ r.article_id = old.article_id /\ r.ticker_id = old.ticker_id
              /\ r.relevance = old.relevance
              /\ r.vader = cur[p].fields["vader"]
              /\ r.vader # old.vader

\* C5: a call of upsert_article_ticker with an empty or null fields mapping
\* that meets no storage failure returns, and the row of its pair exists
\* with the returned ID.
C5_EmptyFieldsEnsuresRow ==
    \A i \in 1..Len(log) :
        (/\ log[i].op = "upsert_article_ticker"
         /\ (log[i].arg.none \/ log[i].arg.map = <<>>)
         /\ log[i].status # "storage_error")
        => /\ log[i].status = "returned"
           /\ \E r \in article_tickers :
                 /\ r.article_id = log[i].article_id
                 /\ r.ticker_id = log[i].ticker_id
                 /\ r.id = log[i].ret


\* The returned insert_prediction calls with the key of row r, by position
\* in the log.
C6_Writers(r) ==
    {i \in Returned : /\ log[i].article_ticker_id = r.article_ticker_id
                      /\ log[i].horizon = r.horizon
                      /\ log[i].prediction_time = r.prediction_time}

\* At most one row per (link ID, horizon, prediction time); the row of a key
\* carries the values of the first call that returned for the key; a call
\* that meets no storage failure returns.
C6_OneRowOfFirstInsert ==
    /\ \A r1, r2 \in predictions :
          (/\ r1.article_ticker_id = r2.article_ticker_id
           /\ r1.horizon = r2.horizon
           /\ r1.prediction_time = r2.prediction_time) => r1 = r2
    /\ \A r \in predictions : \A i \in C6_Writers(r) :
          (\A j \in C6_Writers(r) : i <= j)
          => r.gk_prob = log[i].gk_prob /\ r.predicted_pct = log[i].predicted_pct
    /\ \A i \in Returned : \E r \in predictions : i \in C6_Writers(r)
    /\ \A i \in 1..Len(log) : log[i].status \in {"returned", "storage_error"}

\* C6: insert_prediction is first-writer-wins on (link ID, horizon,
\* prediction time): an insert whose key has a row leaves the table as it
\* was and returns without error, so there is at most one row per key and it
\* carries the values of the first insert.
C6_FirstWriterWins ==
    /\ []C6_OneRowOfFirstInsert
    /\ [][\A p \in Procs :
            (/\ cur[p].op = "insert_prediction"
             /\ pc[p] = "insert"
             /\ pc'[p] = "commit"
             /\ \E r \in predictions :
                   /\ r.article_ticker_id = cur[p].article_ticker_id
                   /\ r.horizon = cur[p].horizon
                   /\ r.prediction_time = cur[p].prediction_time)
            => predictions' = predictions]_vars

\* C6 witness: two calls with one key and different probabilities have
\* returned, and the row holds the probability of the first.
C6_Witness ==
    \E i, j \in Returned : \E r \in predictions :
        /\ log[i].op = "insert_prediction"
        /\ i < j
        /\ {i, j} \subseteq C6_Writers(r)
        /\ log[i].gk_prob # log[j].gk_prob
        /\ r.gk_prob = log[i].gk_prob


\* The rows of actuals with the key of record v.
C7_RowsOf(T, v) ==
    {r \in T : /\ r.article_ticker_id = v.article_ticker_id
               /\ r.horizon = v.horizon
               /\ r.computed_at = v.computed_at}

\* The rows of actuals that call number n inserted.
C7_InsertedBy(T, n) == {r \in T : r.actual_pct[1] = n}

\* In every state: a batch that returned has each of its keys in exactly one
\* row, and where that row is the call's own it is the first record of the
\* key in the batch; a batch that failed has left no row.
C7_BatchOutcome ==
    \A i \in 1..Len(log) :
        IF log[i].status = "returned"
        THEN \A k \in 1..Len(log[i].rows) :
                LET v == log[i].rows[k] IN
                /\ Cardinality(C7_RowsOf(actuals, v)) = 1
                /\ \A r \in C7_RowsOf(actuals, v) :
                      r.actual_pct[1] = log[i].n
                      => /\ r.actual_pct[2] <= k
                         /\ \A j \in 1..(r.actual_pct[2] - 1) :
                               C7_RowsOf({r}, log[i].rows[j]) = {}
        ELSE C7_InsertedBy(actuals, log[i].n) = {}

\* C7: a non-empty batch is all-or-nothing with per-row insert-ignore.  Each
\* record whose key has no row is inserted once, with its values; a record
\* whose key has a row (an earlier record of the batch included) changes
\* nothing; a call that returns leaves every key of its batch in exactly one
\* row; a call that fails removes the rows it inserted and nothing else.
C7_BulkAllOrNothing ==
    /\ []C7_BatchOutcome
    /\ [][\A p \in Procs :
            /\ (/\ cur[p].op = "bulk_insert_actuals"
                /\ pc[p] = "insert"
                /\ pc'[p] # "idle"
                /\ cur'[p].next = cur[p].next + 1)
               => LET v == NextRecord(p) IN
                  IF C7_RowsOf(actuals, v) # {}
                  THEN actuals' = actuals
                  ELSE /\ actuals \subseteq actuals'
                       /\ Cardinality(actuals' \ actuals) = 1
                       /\ \A r \in actuals' \ actuals :
                             /\ r.article_ticker_id = v.article_ticker_id
                             /\ r.horizon = v.horizon
                             /\ r.computed_at = v.computed_at
                             /\ r.actual_pct = v.actual_pct
            /\ (/\ cur[p].op = "bulk_insert_actuals"
                /\ pc[p] # "idle"
                /\ pc'[p] = "idle"
                /\ log'[Len(log')].status # "returned")
               => actuals' = actuals \ C7_InsertedBy(actuals, cur[p].n)]_vars

\* C7 witness: the first call failed after its executemany had inserted the
\* first of two records, and the two records of the other call, which
\* returned, are the rows of the table.
C7_Witness ==
    /\ Len(log) = 2
    /\ log[1].op = "bulk_insert_actuals"
    /\ log[1].n = 1
    /\ log[1].status = "storage_error"
    /\ Len(log[1].rows) = 2
    /\ log[1].next = 2
    /\ log[2].status = "returned"
    /\ Len(log[2].rows) = 2
    /\ Cardinality(actuals) = 2

\* The step is a call of bulk_insert_actuals with an empty batch.
C8_EmptyCall ==
    /\ Len(log') = Len(log) + 1
    /\ log'[Len(log')].op = "bulk_insert_actuals"
    /\ log'[Len(log')].rows = <<>>

\* C8: bulk_insert_actuals with an empty batch returns without error, opens
\* no transaction and leaves every table unchanged.
C8_EmptyBatchIsNoop ==
    /\ [](\A i \in 1..Len(log) :
            (log[i].op = "bulk_insert_actuals" /\ log[i].rows = <<>>)
            => log[i].status = "returned" /\ ~log[i].began)
    /\ [](\A p \in Procs :
            (cur[p].op = "bulk_insert_actuals" /\ pc[p] # "idle") => cur[p].rows # <<>>)
    /\ [][C8_EmptyCall
           => UNCHANGED <<dbTables, autoinc, undo, pc, cur>>]_vars

\* C8 witness: a call with an empty batch has returned while the table held
\* a row and another worker's transaction was open.
C8_Witness ==
    \E i \in Returned :
        /\ log[i].op = "bulk_insert_actuals"
        /\ log[i].rows = <<>>
        /\ actuals # {}
        /\ \E p \in Procs : pc[p] # "idle"
        /\ i = Len(log)


---------------------------------------------------------------------------
(* Price cache: freshness *)

\* The age limit of the call that ended last, in seconds.
C9_AgeLimit == last.max_cache_age_hours * SecondsPerHour

\* df is the series the file content spells, in date order.
C9_IsSeriesOf(df, content) ==
    /\ df.cols = content.cols
    /\ Len(df.rows) = Len(content.rows)
    /\ {df.rows[i] : i \in 1..Len(df.rows)} = {content.rows[i] : i \in 1..Len(content.rows)}
    /\ \A i \in 1..Len(df.rows) - 1 : df.rows[i].date <= df.rows[i + 1].date

\* A call that found the entry younger than the limit, and whose read of it
\* did not fail, returned the series of the entry and never called the source.
C9_FreshIsServed ==
    (/\ last.op = "get_price_history"
     /\ last.seenExists
     /\ last.seenAge < C9_AgeLimit
     /\ ~last.readFailed)
    => /\ last.status = "returned"
       /\ last.kind = "cache"
       /\ C9_IsSeriesOf(last.df, last.readContent)
       /\ last.fetches = 0

\* A call that found the entry older than the limit called the source exactly
\* once and did not return the cached copy.
C9_StaleIsRefetched ==
    (/\ last.op = "get_price_history"
     /\ last.seenExists
     /\ last.seenAge > C9_AgeLimit)
    => /\ last.fetches = 1
       /\ last.kind # "cache"
       /\ last.readContent = NoFrame

\* C9: with A the configured maximum age, a call made when the entry's age
\* is below A and the entry parses returns the cached series and never
\* invokes the source; a call made when the entry's age exceeds A invokes
\* the source exactly once and does not return the cached copy.
C9_FreshnessPolicy == C9_FreshIsServed /\ C9_StaleIsRefetched

\* A call found the entry one hour old, under the limit of two, and returned
\* its two bars without calling the source.
C9_Witness ==
    /\ last.op = "get_price_history"
    /\ last.seenExists
    /\ last.seenAge = SecondsPerHour
    /\ last.seenAge < C9_AgeLimit
    /\ last.kind = "cache"
    /\ Len(last.df.rows) = 2
    /\ last.fetches = 0

\* The content is a series in the canonical schema.
C10_Decodable(content) == content.cols = CanonicalColumns

\* C10: an entry that cannot be decoded as a series in the canonical schema
\* (date, open, high, low, close, adjusted close, volume) is never returned:
\* the call has the outcome of the same call on an absent entry, that is, it
\* calls the source once and its outcome is the source's.
C10_UndecodableIsAbsent ==
    (/\ last.op = "get_price_history"
     /\ last.seenExists
     /\ last.seenAge < C9_AgeLimit
     /\ ~C10_Decodable(last.readContent))
    => /\ last.fetches = 1
       /\ last.kind # "cache"

---------------------------------------------------------------------------
(* Price cache: refresh *)

\* Worker p's call ends in this step.
Ends(p) == pc[p] # "idle" /\ pc'[p] = "idle"

\* The call c started with the entry absent, stale or corrupt.
C11_RefreshRequired(c) ==
    \/ ~c.seenExists
    \/ c.seenAge >= c.max_cache_age_hours * SecondsPerHour
    \/ c.readFailed
    \/ c.kind = "cache" /\ ~C10_Decodable(c.readContent)

\* The entry of the call that ended last is valid and fresh: it holds the
\* series the call returned, in the canonical schema, written now, so that a
\* call within the maximum age reads it.
C11_EntryIsFresh ==
    LET entry == files[last.cache_path] IN
    /\ entry.exists
    /\ entry.mtime = now
    /\ entry.content = last.df
    /\ C10_Decodable(entry.content)
    /\ CsvReadable(entry.content)
    /\ \A a \in MaxAges : IsFresh(now - entry.mtime, a)

C12_StepBeforeSave(p) ==
    /\ pc[p] \in {"idle", "read", "download"}
    /\ pc'[p] # pc[p] \/ cur'[p] # cur[p]

\* C12: when a refresh is required and the price source fails, the call
\* raises the source's error: it returns neither the stored copy nor an empty
\* series, and no step of the call, from its start to the raise, changes the
\* cache files.
C12_SourceErrorPropagates ==
    [][\A p \in Procs :
          /\ (Ends(p) /\ last'.source = "error")
             => /\ last'.status = "raised"
                /\ last'.kind = "none"
                /\ last'.df = NoFrame
                /\ last'.fetches = 1
          /\ C12_StepBeforeSave(p) => files' = files]_vars

\* A call found the entry stale, the source raised, the call raised, and the
\* stale entry of two bars is still there with its old time.
C12_Witness ==
    /\ last.op = "get_price_history"
    /\ last.source = "error"
    /\ last.status = "raised"
    /\ last.seenExists
    /\ last.seenAge >= C9_AgeLimit
    /\ files[last.cache_path].exists
    /\ files[last.cache_path].mtime = now - last.seenAge
    /\ Len(files[last.cache_path].content.rows) = 2


\* C13: when the price source returns zero rows, get_price_history returns,
\* without error, a series with zero rows whose columns are exactly date,
\* open, high, low, close, adj_close, volume.
C13_EmptySourceGivesEmptySeries ==
    (last.op = "get_price_history" /\ last.source = "empty")
    => /\ last.status = "returned"
       /\ last.df.rows = <<>>
       /\ last.df.cols = <<"date", "open", "high", "low", "close", "adj_close", "volume">>

\* A call has asked the source once, got no rows and returned.
C13_Witness ==
    /\ last.op = "get_price_history"
    /\ last.source = "empty"
    /\ last.status = "returned"
    /\ last.fetches = 1


\* C14: if the source fetch succeeds with data but writing the cache entry
\* fails, get_price_history still returns the freshly fetched, normalized
\* series (the frame it was about to save: standard columns, the bars of the
\* source in date order) and raises no error.
C14_WriteFailureIsNotFatal ==
    [][\A p \in Procs :
          (Ends(p) /\ pc[p] \in {"save", "write"} /\ fails' = fails + 1)
          => /\ last'.status = "returned"
             /\ last'.source = "rows"
             /\ last'.fetches = 1
             /\ last'.df = cur[p].df
             /\ C10_Decodable(last'.df)
             /\ last'.df.rows # <<>>
             /\ \A i \in 1..Len(last'.df.rows) - 1 :
                   last'.df.rows[i].date <= last'.df.rows[i + 1].date]_vars

\* The only call so far fetched two bars, could not open the cache file, and
\* returned the bars; there is no file.
C14_Witness ==
    /\ calls = 1
    /\ fails = 1
    /\ last.op = "get_price_history"
    /\ last.status = "returned"
    /\ last.source = "rows"
    /\ Len(last.df.rows) = 2
    /\ ~files[last.cache_path].exists


---------------------------------------------------------------------------
(* Price cache: the series *)

\* The rows are in ascending date order and no two have the same date.
C15_StrictlyAscending(rows) ==
    \A i \in 1..Len(rows) - 1 : rows[i].date < rows[i + 1].date

\* C15: every price series that get_price_history returns or persists, on
\* the cache-hit path and on the refresh path alike, is ordered ascending by
\* date and contains no two bars with the same date.
C15_SeriesStrictlyAscending ==
    /\ (last.op = "get_price_history" /\ last.status = "returned")
       => C15_StrictlyAscending(last.df.rows)
    /\ \A path \in CachePaths :
          files[path].exists => C15_StrictlyAscending(files[path].content.rows)


---------------------------------------------------------------------------
(* Price cache: the key *)

\* The key of a request: the normalized (upper-cased) symbol, the interval
\* and the two dates.
C16_Key(c) == <<Upper(c.ticker), c.interval, c.start_date, c.end_date>>

\* The location is a file of the cache directory.
C16_InsideCacheDir(path) ==
    /\ Len(path) > 2
    /\ path[1] = DefaultCacheDir
    /\ path[2] = "/"
    /\ \A i \in 3..Len(path) : path[i] # "/"

\* C16: the cache key construction maps each tuple (normalized symbol,
\* interval, start date, end date) to one storage location inside the cache
\* directory, with the path-hostile characters of the symbol replaced, and
\* two requests use the same storage location if and only if their
\* normalized tuples are equal.
C16_OneLocationPerKey ==
    \A p, q \in Procs :
        (/\ cur[p].op = "_build_cache_path" /\ cur[p].status = "returned"
         /\ cur[q].op = "_build_cache_path" /\ cur[q].status = "returned")
        => /\ C16_InsideCacheDir(cur[p].cache_path)
           /\ (cur[p].cache_path = cur[q].cache_path) <=> (C16_Key(cur[p]) = C16_Key(cur[q]))


---------------------------------------------------------------------------
(* Price cache: concurrent callers *)

\* Worker q is in the middle of writing the entry of worker p's call.
C17_Writing(q, p) ==
    /\ q # p
    /\ pc[q] = "write"
    /\ cur[q].cache_path = cur[p].cache_path

\* The content is a complete series, as some call wrote it.
C17_Complete(content) ==
    /\ content.rows # <<>>
    /\ \E o \in SourceOutcomes : content = Normalize(SourceFrame(o))

\* C17: under every interleaving of concurrent get_price_history calls for
\* the same key each write of the entry is atomic: no caller reads and
\* returns the entry while another is in the middle of writing it unless it
\* returns the complete series, and once all calls have finished, no write
\* having failed, the entry is a complete series.
C17_WritesAreAtomic ==
    /\ [](\A path \in CachePaths :
            ((\A p \in Procs : pc[p] = "idle") /\ files[path].exists /\ fails = 0)
            => C17_Complete(files[path].content))
    /\ [][\A p, q \in Procs :
            (pc[p] = "read" /\ Ends(p) /\ C17_Writing(q, p))
            => C17_Complete(last'.readContent)]_vars


---------------------------------------------------------------------------
(* Malformed symbols *)

\* The symbol is null or empty.
C18_Malformed(symbol) == symbol = NoneStr \/ symbol = <<>>

\* C18: a call whose symbol is malformed (null or empty) is rejected with an
\* error before any I/O: get_or_create_ticker executes no database statement
\* and creates no ticker row, and get_price_history touches neither the
\* cache directory nor the price source.
C18_MalformedRejectedBeforeIO ==
    /\ \A r \in tickers : ~C18_Malformed(r.symbol)
    /\ \A p \in Procs :
          (cur[p].op = "get_or_create_ticker" /\ C18_Malformed(cur[p].symbol))
          => pc[p] \notin {"select", "commit"}
    /\ \A i \in 1..Len(log) :
          (log[i].op = "get_or_create_ticker" /\ C18_Malformed(log[i].symbol))
          => log[i].status = "raised"
    /\ (last.op = "get_price_history" /\ C18_Malformed(last.ticker))
       => (last.status = "raised" /\ last.fetches = 0 /\ ~dir)


---------------------------------------------------------------------------
(* Price cache: frame conditions *)

\* Worker p starts a call in this step, for an entry written longer ago
\* than the call's maximum age.
C19_StartsAfterExpiry(p) ==
    /\ pc[p] = "idle"
    /\ pc'[p] # "idle"
    /\ files[cur'[p].cache_path].exists
    /\ now > files[cur'[p].cache_path].mtime
             + cur'[p].max_cache_age_hours * SecondsPerHour

\* C19: a call served from the cache leaves every cache file, content and
\* last-modified time, as it is; a file's time is never later than now; and
\* a call that starts more than the maximum age after the entry's last write
\* is not served from the cache but goes to the source.
C19_ReadsDoNotRefresh ==
    /\ [](\A path \in CachePaths : files[path].mtime <= now)
    /\ [][\A p \in Procs :
            /\ (pc[p] = "read" /\ (pc'[p] # pc[p] \/ cur'[p] # cur[p])) => files' = files
            /\ C19_StartsAfterExpiry(p) => pc'[p] = "download"]_vars

\* A call was served from the cache an hour after the entry was written, and
\* the entry still has the time of its writing.
C19_Witness ==
    /\ last.op = "get_price_history"
    /\ last.kind = "cache"
    /\ last.seenAge = SecondsPerHour
    /\ now = SecondsPerHour
    /\ files[last.cache_path].mtime = 0
    /\ files[last.cache_path].content = last.readContent


\* Worker p starts a call in this step, for an entry that is absent or as
\* old as the call's maximum age.
C20_StartsWithoutFreshEntry(p) ==
    /\ pc[p] = "idle"
    /\ pc'[p] # "idle"
    /\ \/ ~files[cur'[p].cache_path].exists
       \/ now - files[cur'[p].cache_path].mtime
             >= cur'[p].max_cache_age_hours * SecondsPerHour

\* Worker p's read of an entry that does not parse ends in this step.
C20_ReadFails(p) ==
    /\ pc[p] = "read"
    /\ pc'[p] # "read"
    /\ ~CsvReadable(files[cur[p].cache_path].content)

\* C20: when a refresh is required and the price source returns zero rows,
\* no step of the call, from its start to its return, creates or changes a
\* cache file: an absent entry stays absent, a stale or unreadable one keeps
\* its content and last-modified time; and a call that finds the entry
\* absent, stale or unreadable goes to the source.
C20_EmptyResultIsNotCached ==
    [][\A p \in Procs :
          /\ (Ends(p) /\ last'.source = "empty")
             => (files' = files /\ last'.fetches = 1)
          /\ C12_StepBeforeSave(p) => files' = files
          /\ C20_StartsWithoutFreshEntry(p) => pc'[p] = "download"
          /\ C20_ReadFails(p) => pc'[p] = "download"]_vars

\* A call found no entry, the source gave no rows, and there is still no
\* entry; a second call for the key is asking the source again.
C20_Witness ==
    /\ last.op = "get_price_history"
    /\ last.source = "empty"
    /\ ~last.seenExists
    /\ ~files[last.cache_path].exists
    /\ \E p \in Procs :
          /\ pc[p] = "download"
          /\ cur[p].cache_path = last.cache_path
          /\ ~cur[p].seenExists


====
